---- MODULE Spec2Model ----
(***************************************************************************)
(* envman: the synchronization engine of `envman sync`.                    *)
(*                                                                         *)
(* Texts (file contents, keys, values) are sequences of one-character      *)
(* strings.  A Record<string,string> of the source is a sequence of        *)
(* <<key, value>> pairs with pairwise distinct keys, in insertion order    *)
(* (the order Object.entries returns).                                     *)
(***************************************************************************)
EXTENDS Integers, Sequences, FiniteSets, TLC

(***************************************************************************)
(* Text helpers: String.prototype.split / trim / join / startsWith         *)
(***************************************************************************)
NL == "\n"

WhiteSpace == {" ", "\t", "\r", NL}

Quotes == {"'", "\""}

\* s.split(sep) for a one-character separator
Split(s, sep) ==
  LET RECURSIVE Go(_, _, _)
      Go(i, cur, acc) ==
        IF i > Len(s) THEN Append(acc, cur)
        ELSE IF s[i] = sep THEN Go(i + 1, <<>>, Append(acc, cur))
        ELSE Go(i + 1, Append(cur, s[i]), acc)
  IN Go(1, <<>>, <<>>)

\* parts.join(sep)
Join(parts, sep) ==
  LET RECURSIVE Go(_, _)
      Go(i, acc) ==
        IF i > Len(parts) THEN acc
        ELSE Go(i + 1, IF i = 1 THEN parts[i] ELSE acc \o <<sep>> \o parts[i])
  IN Go(1, <<>>)

\* s.trim()
Trim(s) ==
  LET Solid == {i \in 1..Len(s) : s[i] \notin WhiteSpace}
  IN IF Solid = {} THEN <<>>
     ELSE LET lo == CHOOSE i \in Solid : \A j \in Solid : i <= j
              hi == CHOOSE i \in Solid : \A j \in Solid : j <= i
          IN SubSeq(s, lo, hi)

\* s.startsWith(c) for a one-character c
StartsWith(s, c) == Len(s) > 0 /\ s[1] = c

\* value.replace(/^['"]|['"]$/g, '')
StripQuotes(v) ==
  LET a == IF Len(v) > 0 /\ v[1] \in Quotes THEN Tail(v) ELSE v
  IN IF Len(a) > 0 /\ a[Len(a)] \in Quotes THEN SubSeq(a, 1, Len(a) - 1) ELSE a

(***************************************************************************)
(* Record<string,string>                                                   *)
(***************************************************************************)
\* Object.keys(vars): the own properties
KeysOf(vars) == {vars[i][1] : i \in 1..Len(vars)}

\* the accessor property of Object.prototype that a plain object inherits
ProtoKey == <<"_", "_", "p", "r", "o", "t", "o", "_", "_">>

\* the names of the other properties a plain object ({}) inherits from
\* Object.prototype
ObjectPrototypeKeys ==
  {<<"c", "o", "n", "s", "t", "r", "u", "c", "t", "o", "r">>,
   <<"h", "a", "s", "O", "w", "n", "P", "r", "o", "p", "e", "r", "t", "y">>,
   <<"i", "s", "P", "r", "o", "t", "o", "t", "y", "p", "e", "O", "f">>,
   <<"p", "r", "o", "p", "e", "r", "t", "y", "I", "s", "E", "n", "u", "m", "e", "r", "a", "b", "l", "e">>,
   <<"t", "o", "S", "t", "r", "i", "n", "g">>,
   <<"t", "o", "L", "o", "c", "a", "l", "e", "S", "t", "r", "i", "n", "g">>,
   <<"v", "a", "l", "u", "e", "O", "f">>,
   <<"_", "_", "d", "e", "f", "i", "n", "e", "G", "e", "t", "t", "e", "r", "_", "_">>,
   <<"_", "_", "d", "e", "f", "i", "n", "e", "S", "e", "t", "t", "e", "r", "_", "_">>,
   <<"_", "_", "l", "o", "o", "k", "u", "p", "G", "e", "t", "t", "e", "r", "_", "_">>,
   <<"_", "_", "l", "o", "o", "k", "u", "p", "S", "e", "t", "t", "e", "r", "_", "_">>}

\* what reading an inherited property gives: a function or object, no string
InheritedMember == <<"[object]">>

\* key in vars: own or inherited
HasKey(vars, k) == k \in KeysOf(vars) \cup ObjectPrototypeKeys \cup {ProtoKey}

\* vars[key], for a key in vars
Get(vars, k) ==
  IF k \in KeysOf(vars)
  THEN vars[CHOOSE i \in 1..Len(vars) : vars[i][1] = k][2]
  ELSE InheritedMember

\* vars[key] = value; a string assigned to __proto__ is ignored
Assign(vars, k, v) ==
  IF k = ProtoKey THEN vars
  ELSE IF k \in KeysOf(vars)
       THEN [i \in 1..Len(vars) |-> IF vars[i][1] = k THEN <<k, v>> ELSE vars[i]]
       ELSE Append(vars, <<k, v>>)

\* the mapping a record denotes, its insertion order forgotten
AsMap(vars) == [k \in KeysOf(vars) |-> Get(vars, k)]

(***************************************************************************)
(* utils/env-parser: parseEnvFile and the serialization of writeEnvFile    *)
(* and performPull                                                         *)
(***************************************************************************)
\* parseEnvFile, applied to the content read from the file
ParseEnvFile(content) ==
  LET lines == Split(content, NL)
      RECURSIVE Go(_, _)
      Go(i, vars) ==
        IF i > Len(lines) THEN vars
        ELSE LET trimmed == Trim(lines[i])
                 parts == Split(trimmed, "=")
                 key == parts[1]
                 valueParts == Tail(parts)
             IN IF trimmed = <<>> \/ StartsWith(trimmed, "#") THEN Go(i + 1, vars)
                ELSE IF key # <<>> /\ Len(valueParts) > 0
                     THEN Go(i + 1, Assign(vars, Trim(key),
                                           StripQuotes(Trim(Join(valueParts, "=")))))
                     ELSE Go(i + 1, vars)
  IN Go(1, <<>>)

\* Object.entries(vars).map(([key, value]) => `${key}=${value}`).join('\n') + '\n'
Serialize(vars) ==
  Join([i \in 1..Len(vars) |-> vars[i][1] \o <<"=">> \o vars[i][2]], NL) \o <<NL>>

(***************************************************************************)
(* core/file-watcher: parseEnvContent and calculateChanges                 *)
(***************************************************************************)
\* FileWatcher.parseEnvContent
ParseEnvContent(content) ==
  LET lines == Split(content, NL)
      RECURSIVE Go(_, _)
      Go(i, vars) ==
        IF i > Len(lines) THEN vars
        ELSE LET trimmed == Trim(lines[i])
                 parts == Split(trimmed, "=")
                 key == parts[1]
                 valueParts == Tail(parts)
             IN IF trimmed # <<>> /\ ~StartsWith(trimmed, "#") /\ key # <<>>
                THEN Go(i + 1, Assign(vars, Trim(key), Trim(Join(valueParts, "="))))
                ELSE Go(i + 1, vars)
  IN Go(1, <<>>)

\* a differ that lists every key of both records as modified
DiffVarsNoCompare(oldVars, newVars) ==
  [added    |-> {k \in KeysOf(newVars) : ~HasKey(oldVars, k)},
   modified |-> {k \in KeysOf(newVars) : HasKey(oldVars, k)},
   removed  |-> {k \in KeysOf(oldVars) : ~HasKey(newVars, k)}]

\* the added / modified / removed lists of two records, as sets of keys
DiffVars(oldVars, newVars) ==
  [added    |-> {k \in KeysOf(newVars) : ~HasKey(oldVars, k)},
   modified |-> {k \in KeysOf(newVars) :
                   HasKey(oldVars, k) /\ Get(oldVars, k) # Get(newVars, k)},
   removed  |-> {k \in KeysOf(oldVars) : ~HasKey(newVars, k)}]

\* FileWatcher.calculateChanges(oldContent, newContent).variables
CalculateChanges(oldContent, newContent) ==
  DiffVars(ParseEnvContent(oldContent), ParseEnvContent(newContent))

NoChanges == [added |-> {}, modified |-> {}, removed |-> {}]

\* calculateDiff of commands/diff; the three arrays as sets
CalculateDiff(local, remote) ==
  [added    |-> {k \in KeysOf(remote) : ~HasKey(local, k)},
   removed  |-> {k \in KeysOf(local) : ~HasKey(remote, k)},
   modified |-> {[key |-> k, oldValue |-> Get(local, k), newValue |-> Get(remote, k)] :
                   k \in {j \in KeysOf(remote) :
                            HasKey(local, j) /\ Get(local, j) # Get(remote, j)}}]

(***************************************************************************)
(* core/encryption: EncryptionManager.                                     *)
(*                                                                         *)
(* AES-256-GCM is symbolic.  A Buffer is [of |-> b, len |-> n], the first  *)
(* n bytes of the byte string named b: the ciphertext of a value names the *)
(* key, the iv and the value it was made of, and its tag names that        *)
(* ciphertext.  A hex string is [hex |-> buffer, rest |-> text]: the hex   *)
(* digits of the buffer, followed by text that starts with a character     *)
(* that is no hex digit (or by nothing).  Values are the well-formed       *)
(* strings a UTF-8 file holds, on which the 'utf8' encoding of             *)
(* cipher.update and the decoding of decipher.update are inverse.          *)
(***************************************************************************)
\* configManager.loadProject().projectName, the derivation key of this project
ProjectName == "proj"

\* crypto.randomBytes(16): the length of an iv in bytes
IvLength == 16

\* the length in bytes of the tag cipher.getAuthTag() returns for aes-256-gcm
TagLength == 16

\* the tag lengths decipher.setAuthTag accepts for a GCM decipher made without
\* the authTagLength option; it throws for any other length
GcmTagLengths == {4, 8, 12, 13, 14, 15, 16}

\* buffer.toString('hex')
ToHex(buffer) == [hex |-> buffer, rest |-> <<>>]

\* Buffer.from(string, 'hex'), and the 'hex' input encoding of decipher.update:
\* decoding stops at the first character that is no hex digit
FromHex(string) == string.hex

\* EncryptionManager.deriveKey
DeriveKey(derivationKey) == <<"sha256", derivationKey>>

\* EncryptionManager.encryptValue with the iv that crypto.randomBytes returned
EncryptValue(value, derivationKey, iv) ==
  LET key == DeriveKey(derivationKey)
      ivBuffer == [of |-> <<"randomBytes", iv>>, len |-> IvLength]
      encrypted == [of |-> <<"gcm", key, ivBuffer, value>>, len |-> Len(value)]
      tag == [of |-> <<"tag", encrypted.of>>, len |-> TagLength]
  IN [encryptedValue |-> ToHex(encrypted),
      iv             |-> ToHex(ivBuffer),
      authTag        |-> ToHex(tag)]

\* EncryptionManager.decryptValue: [ok, value]; ok = FALSE when it throws:
\* createDecipheriv for an empty iv, setAuthTag for a length GCM has no tag of,
\* decipher.final when the tag does not authenticate the ciphertext under the
\* key and the iv
DecryptValue(encryptedValue, iv, authTag, derivationKey) ==
  LET key == DeriveKey(derivationKey)
      ivBuffer == FromHex(iv)
      authTagBuffer == FromHex(authTag)
      encrypted == FromHex(encryptedValue)
  IN IF /\ ivBuffer.len > 0
        /\ authTagBuffer.len \in GcmTagLengths
        /\ Len(encrypted.of) = 4
        /\ encrypted.of[1] = "gcm"
        /\ encrypted.of[2] = key
        /\ encrypted.of[3] = ivBuffer
        /\ encrypted.len = Len(encrypted.of[4])
        /\ authTagBuffer.of = <<"tag", encrypted.of>>
     THEN [ok |-> TRUE, value |-> encrypted.of[4]]
     ELSE [ok |-> FALSE, value |-> <<>>]

UpperCase == <<"A", "B", "C", "D", "E", "F", "G", "H", "I", "J", "K", "L", "M",
               "N", "O", "P", "Q", "R", "S", "T", "U", "V", "W", "X", "Y", "Z">>

LowerCase == <<"a", "b", "c", "d", "e", "f", "g", "h", "i", "j", "k", "l", "m",
               "n", "o", "p", "q", "r", "s", "t", "u", "v", "w", "x", "y", "z">>

\* s.toLowerCase()
ToLowerCase(s) ==
  [i \in 1..Len(s) |->
     IF \E j \in 1..Len(UpperCase) : UpperCase[j] = s[i]
     THEN LowerCase[CHOOSE j \in 1..Len(UpperCase) : UpperCase[j] = s[i]]
     ELSE s[i]]

\* s.includes(pattern)
Includes(s, pattern) ==
  \E i \in 1..(Len(s) - Len(pattern) + 1) : SubSeq(s, i, i + Len(pattern) - 1) = pattern

\* secretPatterns of looksLikeSecret
SecretPatterns ==
  {<<"s", "e", "c", "r", "e", "t">>,
   <<"p", "a", "s", "s", "w", "o", "r", "d">>,
   <<"t", "o", "k", "e", "n">>,
   <<"k", "e", "y">>,
   <<"a", "p", "i", "_", "k", "e", "y">>,
   <<"a", "c", "c", "e", "s", "s", "_", "k", "e", "y">>,
   <<"p", "r", "i", "v", "a", "t", "e", "_", "k", "e", "y">>,
   <<"a", "u", "t", "h">>,
   <<"c", "r", "e", "d", "e", "n", "t", "i", "a", "l">>,
   <<"a", "p", "i", "k", "e", "y">>}

\* EncryptionManager.looksLikeSecret
LooksLikeSecret(key, value) ==
  \E pattern \in SecretPatterns :
    Includes(ToLowerCase(key), pattern) \/ Includes(ToLowerCase(value), pattern)

\* encryptVariables that draws one iv and uses it for every record
EncryptVariablesOneIv(vars, derivationKey, ivs) ==
  [i \in 1..Len(vars) |->
     LET e == EncryptValue(vars[i][2], derivationKey, ivs[1])
     IN [key |-> vars[i][1], encryptedValue |-> e.encryptedValue,
         iv |-> e.iv, authTag |-> e.authTag,
         isSecret |-> LooksLikeSecret(vars[i][1], vars[i][2])]]

\* encryptVariables that makes records of the variables classified secret only
EncryptVariablesSecretsOnly(vars, derivationKey, ivs) ==
  LET secret == SelectSeq([i \in 1..Len(vars) |-> <<vars[i][1], vars[i][2], ivs[i]>>],
                          LAMBDA v : LooksLikeSecret(v[1], v[2]))
  IN [i \in 1..Len(secret) |->
        LET e == EncryptValue(secret[i][2], derivationKey, secret[i][3])
        IN [key |-> secret[i][1], encryptedValue |-> e.encryptedValue,
            iv |-> e.iv, authTag |-> e.authTag, isSecret |-> TRUE]]

\* EncryptionManager.encryptVariables; ivs[i] is the iv drawn for the i-th entry
EncryptVariables(vars, derivationKey, ivs) ==
  [i \in 1..Len(vars) |->
     LET e == EncryptValue(vars[i][2], derivationKey, ivs[i])
     IN [key |-> vars[i][1], encryptedValue |-> e.encryptedValue,
         iv |-> e.iv, authTag |-> e.authTag,
         isSecret |-> LooksLikeSecret(vars[i][1], vars[i][2])]]

\* EncryptionManager.decryptVariables: [ok, vars]; ok = FALSE when it throws
DecryptVariables(encrypted, derivationKey) ==
  LET RECURSIVE Go(_, _)
      Go(i, vars) ==
        IF i > Len(encrypted) THEN [ok |-> TRUE, vars |-> vars]
        ELSE LET item == encrypted[i]
                 d == DecryptValue(item.encryptedValue, item.iv, item.authTag,
                                   derivationKey)
             IN IF d.ok THEN Go(i + 1, Assign(vars, item.key, d.value))
                ELSE [ok |-> FALSE, vars |-> <<>>]
  IN Go(1, <<>>)

(***************************************************************************)
(* The session of commands/sync: syncCommand, startWatchMode and           *)
(* performOneTimeSync                                                      *)
(***************************************************************************)
VARIABLES
  watch,          \* options.watch
  performed,      \* the performPush / performPull calls performOneTimeSync has made
  call,           \* a function of the engine applied on its own: inputs and result
  pushOnly,       \* options.pushOnly
  pullOnly,       \* options.pullOnly
  exitCode,       \* "none" while the process runs, else the code of process.exit
  file,           \* content of the local .env file
  fsEvent,        \* chokidar holds a 'change' of the file it has not delivered yet
  watcher,        \* FileWatcher.watcher is non-null
  lastContent,    \* FileWatcher.lastContent, the detector's baseline
  debounceTimer,  \* FileWatcher.debounceTimer: "null", or a handle "live" / "expired"
  strayTimers,    \* live timeouts that debounceTimer no longer refers to
  pollTimer,      \* the setInterval of startWatchMode is live
  pushes,         \* performPush calls in flight, in the order they started
  polls,          \* checkRemoteChanges calls in flight, by the await they are at
  remote,         \* rows of the remote 'variables' table of (project, environment)
  log,            \* what the last step emitted or logged
  userEdit,       \* the user has written the file since the detector last read it
  pushesClean     \* a push has started, and since the latest one started no push
                  \* has failed and no other client has written the remote

vars == <<watch, performed, call, pushOnly, pullOnly, exitCode, file, fsEvent, watcher, lastContent,
          debounceTimer, strayTimers, pollTimer, pushes, polls, remote, log,
          userEdit, pushesClean>>

\* the most performPush and checkRemoteChanges calls in flight, together, that
\* the model follows
MaxInFlight == 2

\* the most live timeouts the model follows
MaxTimers == 2

KeyA == <<"A">>

KeyB == <<"B">>

\* contents the user gives the file
FileA1 == <<"A", "=", "1", NL>>

FileA2 == <<"A", "=", "2", NL>>

FileA1B2 == <<"A", "=", "1", NL, "B", "=", "2", NL>>

FileA2B2 == <<"A", "=", "2", NL, "B", "=", "2", NL>>

UserFiles == {FileA1, FileA2B2}

\* outcomes of crypto.randomBytes(16) that a watch session draws from
SessionIVs == {"iv0"}

\* what other clients of the project push, and rows no key of this project opens
OtherRemotes ==
  {EncryptVariables(ParseEnvFile(c), ProjectName, [i \in 1..2 |-> "iv0"]) :
     c \in {<<>>, FileA1, FileA1B2}}
  \cup {EncryptVariables(ParseEnvFile(FileA2), "other", [i \in 1..2 |-> "iv0"])}

Quiet == [msg |-> "", changes |-> NoChanges]

\* no function is applied on its own
NoCall == [fn |-> "none"]

Logged(m) == [msg |-> m, changes |-> NoChanges]

Running == exitCode = "none"

InFlight == Len(pushes) + polls.check + polls.pull

TypeOK ==
  /\ watch \in BOOLEAN
  /\ pushOnly \in BOOLEAN /\ pullOnly \in BOOLEAN
  /\ exitCode \in {"none", "0", "1"}
  /\ fsEvent \in BOOLEAN /\ watcher \in BOOLEAN /\ pollTimer \in BOOLEAN
  /\ debounceTimer \in {"null", "live", "expired"}
  /\ strayTimers \in 0..MaxTimers
  /\ Len(pushes) + polls.check + polls.pull <= MaxInFlight
  /\ \A i \in 1..Len(pushes) : pushes[i].pc \in {"delete", "insert"}
  /\ userEdit \in BOOLEAN /\ pushesClean \in BOOLEAN

\* the state when startWatchMode reaches its final await
Init ==
  /\ watch = TRUE
  /\ performed = <<>>
  /\ call = NoCall
  /\ pushOnly \in BOOLEAN
  /\ pullOnly \in BOOLEAN
  /\ exitCode = "none"
  /\ file \in UserFiles
  /\ fsEvent = FALSE
  /\ watcher = TRUE
  /\ lastContent = file
  /\ debounceTimer = "null"
  /\ strayTimers = 0
  /\ pollTimer = ~pushOnly
  /\ pushes = <<>>
  /\ polls = [check |-> 0, pull |-> 0]
  /\ remote \in OtherRemotes
  /\ log = Quiet
  /\ userEdit = FALSE
  /\ pushesClean = FALSE

(***************************************************************************)
(* Outside the program: the user's editor, chokidar, other clients         *)
(***************************************************************************)
\* the user saves the file with new content
UserEdit(content) ==
  /\ Running
  /\ content # file
  /\ file' = content
  /\ fsEvent' = watcher
  /\ userEdit' = TRUE
  /\ log' = Quiet
  /\ UNCHANGED <<watch, performed, call>>
  /\ UNCHANGED <<pushOnly, pullOnly, exitCode, watcher, lastContent, debounceTimer,
                 strayTimers, pollTimer, pushes, polls, remote, pushesClean>>

\* another client of the project replaces the remote rows
RemoteEdit(rows) ==
  /\ Running
  /\ rows # remote
  /\ remote' = rows
  /\ pushesClean' = FALSE
  /\ log' = Quiet
  /\ UNCHANGED <<watch, performed, call>>
  /\ UNCHANGED <<pushOnly, pullOnly, exitCode, file, fsEvent, watcher, lastContent,
                 debounceTimer, strayTimers, pollTimer, pushes, polls, userEdit>>

(***************************************************************************)
(* core/file-watcher: FileWatcher                                          *)
(***************************************************************************)
\* handleFileChange without its clearTimeout: the pending timeout stays live
HandleFileChangeNoClear ==
  /\ strayTimers + (IF debounceTimer = "live" THEN 1 ELSE 0) < MaxTimers
  /\ debounceTimer' = "live"
  /\ strayTimers' = strayTimers + (IF debounceTimer = "live" THEN 1 ELSE 0)

\* FileWatcher.handleFileChange: clearTimeout of the pending timer, then setTimeout
HandleFileChange ==
  /\ debounceTimer' = "live"
  /\ strayTimers' = strayTimers

\* performPush up to its first await: parseEnvFile, encryptVariables, pushVariables
StartPush(ivs) ==
  [vars |-> EncryptVariables(ParseEnvFile(file), ProjectName, ivs), pc |-> "delete"]

\* the 'env-changed' handler of startWatchMode, up to the await in performPush
OnEnvChanged ==
  IF pullOnly
  THEN UNCHANGED <<pushes, pushesClean>>
  ELSE /\ InFlight < MaxInFlight
       /\ \E ivs \in [1..Len(ParseEnvFile(file)) -> SessionIVs] :
            pushes' = Append(pushes, StartPush(ivs))
       /\ pushesClean' = TRUE

\* processFileChange that emits the change and keeps its baseline
ProcessFileChangeKeepsBaseline(readOk) ==
  IF ~readOk
  THEN /\ log' = Logged("Watcher error")
       /\ UNCHANGED <<lastContent, userEdit, pushes, pushesClean>>
  ELSE LET changes == CalculateChanges(lastContent, file)
       IN /\ userEdit' = FALSE
          /\ lastContent' = lastContent
          /\ IF changes # NoChanges
             THEN /\ log' = [msg |-> "env-changed", changes |-> changes]
                  /\ OnEnvChanged
             ELSE /\ log' = Quiet
                  /\ UNCHANGED <<pushes, pushesClean>>

\* processFileChange that takes a file it cannot read for an empty one
ProcessFileChangeForgets(readOk) ==
  IF ~readOk
  THEN /\ log' = Logged("Watcher error")
       /\ lastContent' = <<>>
       /\ UNCHANGED <<userEdit, pushes, pushesClean>>
  ELSE LET changes == CalculateChanges(lastContent, file)
       IN /\ userEdit' = FALSE
          /\ IF changes # NoChanges
             THEN /\ lastContent' = file
                  /\ log' = [msg |-> "env-changed", changes |-> changes]
                  /\ OnEnvChanged
             ELSE /\ log' = Quiet
                  /\ UNCHANGED <<lastContent, pushes, pushesClean>>

\* FileWatcher.processFileChange; readOk = FALSE when fs.readFileSync throws
ProcessFileChange(readOk) ==
  IF ~readOk
  THEN /\ log' = Logged("Watcher error")
       /\ UNCHANGED <<lastContent, userEdit, pushes, pushesClean>>
  ELSE LET changes == CalculateChanges(lastContent, file)
       IN /\ userEdit' = FALSE
          /\ IF changes # NoChanges
             THEN /\ lastContent' = file
                  /\ log' = [msg |-> "env-changed", changes |-> changes]
                  /\ OnEnvChanged
             ELSE /\ log' = Quiet
                  /\ UNCHANGED <<lastContent, pushes, pushesClean>>

\* a stop that closes the chokidar watcher and leaves the timeout pending
StopKeepsTimer ==
  /\ watcher' = FALSE
  /\ debounceTimer' = debounceTimer
  /\ strayTimers' = strayTimers

\* FileWatcher.stop
Stop ==
  /\ watcher' = FALSE
  /\ debounceTimer' = "null"
  /\ strayTimers' = strayTimers

\* chokidar delivers 'change' to the watcher's handler
FsNotify ==
  /\ Running
  /\ watcher
  /\ fsEvent
  /\ fsEvent' = FALSE
  /\ HandleFileChange
  /\ log' = Quiet
  /\ UNCHANGED <<watch, performed, call>>
  /\ UNCHANGED <<pushOnly, pullOnly, exitCode, file, watcher, lastContent, pollTimer,
                 pushes, polls, remote, userEdit, pushesClean>>

\* a debounce timeout fires: the one debounceTimer refers to, or a stray one
DebounceFire(stray, readOk) ==
  /\ Running
  /\ IF stray
     THEN /\ strayTimers > 0
          /\ strayTimers' = strayTimers - 1
          /\ UNCHANGED debounceTimer
     ELSE /\ debounceTimer = "live"
          /\ debounceTimer' = "expired"
          /\ UNCHANGED strayTimers
  /\ ProcessFileChange(readOk)
  /\ UNCHANGED <<watch, performed, call>>
  /\ UNCHANGED <<pushOnly, pullOnly, exitCode, file, fsEvent, watcher, pollTimer,
                 polls, remote>>

\* the 'env-changed' handler that sends the content the detector has just read
OnEnvChangedSendsRead(content) ==
  /\ ~pullOnly
  /\ InFlight < MaxInFlight
  /\ \E ivs \in [1..Len(ParseEnvFile(file)) -> SessionIVs] :
       pushes' = Append(pushes, [vars |-> EncryptVariables(ParseEnvFile(file), ProjectName, ivs),
                                 pc |-> "delete"])
  /\ pushesClean' = TRUE

\* the 'env-changed' handler of a session that pushes, when the parseEnvFile of
\* its performPush finds content in the file: the ChangeSet is logged only
OnEnvChangedReads(content) ==
  /\ ~pullOnly
  /\ InFlight < MaxInFlight
  /\ \E ivs \in [1..Len(ParseEnvFile(content)) -> SessionIVs] :
       pushes' = Append(pushes, [vars |-> EncryptVariables(ParseEnvFile(content), ProjectName, ivs),
                                 pc |-> "delete"])
  /\ pushesClean' = TRUE

\* the debounce timeout fires and the user's editor writes content between the
\* readFileSync of processFileChange and the readFileSync of performPush: the
\* detector takes the file as it was, the push takes content
DebounceFireThenEdit(content) ==
  /\ Running
  /\ debounceTimer = "live"
  /\ debounceTimer' = "expired"
  /\ content # file
  /\ LET changes == CalculateChanges(lastContent, file)
     IN /\ changes # NoChanges
        /\ lastContent' = file
        /\ log' = [msg |-> "env-changed", changes |-> changes]
        /\ OnEnvChangedReads(content)
  /\ file' = content
  /\ fsEvent' = watcher
  /\ userEdit' = TRUE
  /\ UNCHANGED <<watch, performed, call>>
  /\ UNCHANGED <<pushOnly, pullOnly, exitCode, watcher, strayTimers, pollTimer,
                 polls, remote>>

(***************************************************************************)
(* core/api-client: APIClient.pushVariables, from performPush.  The awaits *)
(* before the delete (getUser, project, environment) touch no row and are  *)
(* part of the delete step; a failure of any await is PushFail.            *)
(***************************************************************************)
Without(seq, i) == SubSeq(seq, 1, i - 1) \o SubSeq(seq, i + 1, Len(seq))

\* pushVariables up to and including the delete of the environment's rows
PushDelete(i) ==
  /\ Running
  /\ i \in 1..Len(pushes)
  /\ pushes[i].pc = "delete"
  /\ remote' = <<>>
  /\ pushes' = [pushes EXCEPT ![i].pc = "insert"]
  /\ log' = Quiet
  /\ UNCHANGED <<watch, performed, call>>
  /\ UNCHANGED <<pushOnly, pullOnly, exitCode, file, fsEvent, watcher, lastContent,
                 debounceTimer, strayTimers, pollTimer, polls, userEdit, pushesClean>>

\* an insert that stores the first of the new rows only
PushInsertFirstRow(i) ==
  /\ Running
  /\ i \in 1..Len(pushes)
  /\ pushes[i].pc = "insert"
  /\ remote' = remote \o SubSeq(pushes[i].vars, 1, 1)
  /\ pushes' = Without(pushes, i)
  /\ log' = Quiet
  /\ UNCHANGED <<watch, performed, call>>
  /\ UNCHANGED <<pushOnly, pullOnly, exitCode, file, fsEvent, watcher, lastContent,
                 debounceTimer, strayTimers, pollTimer, polls, userEdit, pushesClean>>

\* the insert of the new rows succeeds; performPush returns
PushInsert(i) ==
  /\ Running
  /\ i \in 1..Len(pushes)
  /\ pushes[i].pc = "insert"
  /\ remote' = remote \o pushes[i].vars
  /\ pushes' = Without(pushes, i)
  /\ log' = Quiet
  /\ UNCHANGED <<watch, performed, call>>
  /\ UNCHANGED <<pushOnly, pullOnly, exitCode, file, fsEvent, watcher, lastContent,
                 debounceTimer, strayTimers, pollTimer, polls, userEdit, pushesClean>>

\* process.exit(code), or the runtime ending the process: the calls in flight and
\* the memory of the process end with it; the timers and the subscription are
\* left as the exiting code left them
ProcessExit(code) ==
  /\ exitCode' = code
  /\ pushes' = <<>>
  /\ polls' = [check |-> 0, pull |-> 0]
  /\ lastContent' = <<>>
  /\ fsEvent' = FALSE
  /\ userEdit' = FALSE
  /\ pushesClean' = FALSE

\* a rejection no handler catches: the runtime warns and goes on, or ends the
\* process with code 1
UnhandledRejection(i, crash) ==
  IF crash
  THEN ProcessExit("1")
  ELSE /\ pushes' = Without(pushes, i)
       /\ pushesClean' = FALSE
       /\ UNCHANGED <<exitCode, polls, lastContent, fsEvent, userEdit>>

\* an await of pushVariables rejects (getUser, project, environment, delete or
\* insert): performPush rethrows into the 'env-changed' handler
PushFail(i, crash) ==
  /\ Running
  /\ i \in 1..Len(pushes)
  /\ log' = Logged("Push failed")
  /\ UnhandledRejection(i, crash)
  /\ UNCHANGED <<watch, performed, call>>
  /\ UNCHANGED <<pushOnly, pullOnly, file, watcher, debounceTimer, strayTimers,
                 pollTimer, remote>>

(***************************************************************************)
(* commands/sync: the poll timer, checkRemoteChanges and performPull.      *)
(* A pullVariables call is one step: the select of the rows and the code   *)
(* that runs when the call returns see the same remote.                    *)
(***************************************************************************)
\* Object.entries(remoteVars).some(([key, value]) =>
\*   !(key in localVars) || localVars[key] !== value)
HasNewOrChanged(localVars, remoteVars) ==
  \E i \in 1..Len(remoteVars) :
    \/ ~HasKey(localVars, remoteVars[i][1])
    \/ Get(localVars, remoteVars[i][1]) # remoteVars[i][2]

\* the setInterval callback: checkRemoteChanges up to its first await
PollTick ==
  /\ Running
  /\ pollTimer
  /\ InFlight < MaxInFlight
  /\ polls' = [polls EXCEPT !.check = @ + 1]
  /\ log' = Quiet
  /\ UNCHANGED <<watch, performed, call>>
  /\ UNCHANGED <<pushOnly, pullOnly, exitCode, file, fsEvent, watcher, lastContent,
                 debounceTimer, strayTimers, pollTimer, pushes, remote, userEdit,
                 pushesClean>>

\* checkRemoteChanges without a catch around it: a failed remote call or
\* decryption escapes as an unhandled rejection that ends the process
CheckRemoteChangesThrows(netOk) ==
  /\ Running
  /\ polls.check > 0
  /\ LET d == DecryptVariables(remote, ProjectName)
     IN IF ~netOk \/ ~d.ok
        THEN /\ ProcessExit("1")
             /\ log' = Logged("Remote check failed")
        ELSE /\ IF HasNewOrChanged(ParseEnvFile(file), d.vars)
                THEN polls' = [check |-> polls.check - 1, pull |-> polls.pull + 1]
                ELSE polls' = [polls EXCEPT !.check = @ - 1]
             /\ log' = Quiet
             /\ UNCHANGED <<exitCode, pushes, lastContent, fsEvent, userEdit,
                            pushesClean>>
  /\ UNCHANGED <<watch, performed, call>>
  /\ UNCHANGED <<pushOnly, pullOnly, file, watcher, debounceTimer, strayTimers,
                 pollTimer, remote>>

\* checkRemoteChanges after its pullVariables; netOk = FALSE when that call throws
CheckRemoteChanges(netOk) ==
  /\ Running
  /\ polls.check > 0
  /\ LET d == DecryptVariables(remote, ProjectName)
     IN IF ~netOk \/ ~d.ok
        THEN /\ polls' = [polls EXCEPT !.check = @ - 1]
             /\ log' = Logged("Remote check failed")
        ELSE IF HasNewOrChanged(ParseEnvFile(file), d.vars)
             THEN /\ polls' = [check |-> polls.check - 1, pull |-> polls.pull + 1]
                  /\ log' = Quiet
             ELSE /\ polls' = [polls EXCEPT !.check = @ - 1]
                  /\ log' = Quiet
  /\ UNCHANGED <<watch, performed, call>>
  /\ UNCHANGED <<pushOnly, pullOnly, exitCode, file, fsEvent, watcher, lastContent,
                 debounceTimer, strayTimers, pollTimer, pushes, remote, userEdit,
                 pushesClean>>

\* performPull that writes what it pulled without comparing it with the file
WritePulledUnchecked(remoteVars) ==
  /\ file' = Serialize(remoteVars)
  /\ fsEvent' = watcher
  /\ log' = Logged("Pulled")

\* performPull from the comparison with the local file on: hasChanges, the write
WritePulled(remoteVars) ==
  IF HasNewOrChanged(ParseEnvFile(file), remoteVars)
  THEN /\ file' = Serialize(remoteVars)
       /\ fsEvent' = watcher
       /\ log' = Logged("Pulled")
  ELSE /\ log' = Quiet
       /\ UNCHANGED <<file, fsEvent>>

\* performPull (called by checkRemoteChanges) after its pullVariables
PerformPull(netOk) ==
  /\ Running
  /\ polls.pull > 0
  /\ polls' = [polls EXCEPT !.pull = @ - 1]
  /\ LET d == DecryptVariables(remote, ProjectName)
     IN IF ~netOk \/ ~d.ok
        THEN /\ log' = Logged("Pull failed")
             /\ UNCHANGED <<file, fsEvent>>
        ELSE WritePulled(d.vars)
  /\ UNCHANGED <<watch, performed, call>>
  /\ UNCHANGED <<pushOnly, pullOnly, exitCode, watcher, lastContent, debounceTimer,
                 strayTimers, pollTimer, pushes, remote, userEdit, pushesClean>>

\* performPull (called by checkRemoteChanges) has found changes and its
\* fs.writeFileSync throws: before it opened the file, or after the open has
\* truncated the file.  performPull rethrows, checkRemoteChanges catches.
PerformPullWriteFails(truncated) ==
  /\ Running
  /\ polls.pull > 0
  /\ LET d == DecryptVariables(remote, ProjectName)
     IN d.ok /\ HasNewOrChanged(ParseEnvFile(file), d.vars)
  /\ polls' = [polls EXCEPT !.pull = @ - 1]
  /\ IF truncated /\ file # <<>>
     THEN file' = <<>> /\ fsEvent' = watcher
     ELSE UNCHANGED <<file, fsEvent>>
  /\ log' = Logged("Write failed")
  /\ UNCHANGED <<watch, performed, call>>
  /\ UNCHANGED <<pushOnly, pullOnly, exitCode, watcher, lastContent, debounceTimer,
                 strayTimers, pollTimer, pushes, remote, userEdit, pushesClean>>

\* the SIGINT handler without its clearInterval
SigintNoClearInterval ==
  /\ Running
  /\ Stop
  /\ pollTimer' = pollTimer
  /\ ProcessExit("0")
  /\ log' = Logged("Stopping sync mode")
  /\ UNCHANGED <<watch, performed, call>>
  /\ UNCHANGED <<pushOnly, pullOnly, file, remote>>

\* the SIGINT handler of startWatchMode
Sigint ==
  /\ Running
  /\ Stop
  /\ pollTimer' = FALSE
  /\ ProcessExit("0")
  /\ log' = Logged("Stopping sync mode")
  /\ UNCHANGED <<watch, performed, call>>
  /\ UNCHANGED <<pushOnly, pullOnly, file, remote>>

(***************************************************************************)
(* commands/sync: performOneTimeSync, called by syncCommand without        *)
(* --watch.  No FileWatcher is made and no timer is set.                   *)
(***************************************************************************)
\* the operations of the calls made so far
Ops == [i \in 1..Len(performed) |-> performed[i].op]

\* the catch of syncCommand: logger.error('Sync failed: ...'), process.exit(1)
SyncFailed ==
  /\ ProcessExit("1")
  /\ log' = Logged("Sync failed")

\* performOneTimeSync calls performPush, which runs up to its await of
\* pushVariables; readOk = FALSE when fs.readFileSync throws in parseEnvFile
OneShotPush(readOk) ==
  /\ Running
  /\ ~watch
  /\ performed = <<>>
  /\ (~pushOnly /\ ~pullOnly) \/ pushOnly
  /\ performed' = <<[op |-> "push", vars |-> ParseEnvFile(file)]>>
  /\ IF readOk
     THEN /\ \E ivs \in [1..Len(ParseEnvFile(file)) -> SessionIVs] :
               pushes' = <<StartPush(ivs)>>
          /\ pushesClean' = TRUE
          /\ log' = Quiet
          /\ UNCHANGED <<exitCode, polls, lastContent, fsEvent, userEdit>>
     ELSE SyncFailed
  /\ UNCHANGED <<watch, call, pushOnly, pullOnly, file, watcher, debounceTimer,
                 strayTimers, pollTimer, remote>>

\* an await of pushVariables rejects: performPush rethrows, performOneTimeSync
\* rejects, syncCommand catches
OneShotPushFail ==
  /\ Running
  /\ ~watch
  /\ Len(pushes) > 0
  /\ SyncFailed
  /\ UNCHANGED <<watch, performed, call, pushOnly, pullOnly, file, watcher,
                 debounceTimer, strayTimers, pollTimer, remote>>

\* performOneTimeSync calls performPull without awaiting the performPush before it
OneShotPullNoAwait ==
  /\ Running
  /\ ~watch
  /\ polls.pull = 0
  /\ \/ Ops = <<"push">> /\ ~pushOnly /\ ~pullOnly
     \/ Ops = <<>> /\ ~pushOnly /\ pullOnly
  /\ performed' = Append(performed, [op |-> "pull", vars |-> <<>>])
  /\ polls' = [polls EXCEPT !.pull = 1]
  /\ log' = Quiet
  /\ UNCHANGED <<watch, call, pushOnly, pullOnly, exitCode, file, fsEvent, watcher,
                 lastContent, debounceTimer, strayTimers, pollTimer, pushes, remote,
                 userEdit, pushesClean>>

\* performOneTimeSync calls performPull, which runs up to its await of
\* pullVariables: first thing with --pull-only, after the awaited performPush
\* has returned when neither flag is set
OneShotPull ==
  /\ Running
  /\ ~watch
  /\ InFlight = 0
  /\ \/ Ops = <<"push">> /\ ~pushOnly /\ ~pullOnly
     \/ Ops = <<>> /\ ~pushOnly /\ pullOnly
  /\ performed' = Append(performed, [op |-> "pull", vars |-> <<>>])
  /\ polls' = [polls EXCEPT !.pull = 1]
  /\ log' = Quiet
  /\ UNCHANGED <<watch, call, pushOnly, pullOnly, exitCode, file, fsEvent, watcher,
                 lastContent, debounceTimer, strayTimers, pollTimer, pushes, remote,
                 userEdit, pushesClean>>

\* performPull that swallows what it catches instead of rethrowing it
OneShotPerformPullSwallows(netOk) ==
  /\ Running
  /\ ~watch
  /\ polls.pull > 0
  /\ LET d == DecryptVariables(remote, ProjectName)
     IN IF ~netOk \/ ~d.ok
        THEN /\ log' = Logged("Pull failed")
             /\ polls' = [polls EXCEPT !.pull = 0]
             /\ UNCHANGED <<performed, exitCode, file, fsEvent, lastContent, pushes,
                            userEdit, pushesClean>>
        ELSE /\ WritePulled(d.vars)
             /\ performed' = [performed EXCEPT ![Len(performed)].vars = d.vars]
             /\ polls' = [polls EXCEPT !.pull = 0]
             /\ UNCHANGED <<exitCode, lastContent, pushes, userEdit, pushesClean>>
  /\ UNCHANGED <<watch, call, pushOnly, pullOnly, watcher, debounceTimer,
                 strayTimers, pollTimer, remote>>

\* performPull (called by performOneTimeSync) after its pullVariables: what it
\* rethrows reaches the catch of syncCommand
OneShotPerformPull(netOk) ==
  /\ Running
  /\ ~watch
  /\ polls.pull > 0
  /\ LET d == DecryptVariables(remote, ProjectName)
     IN IF ~netOk \/ ~d.ok
        THEN /\ SyncFailed
             /\ UNCHANGED <<performed, file>>
        ELSE /\ WritePulled(d.vars)
             /\ performed' = [performed EXCEPT ![Len(performed)].vars = d.vars]
             /\ polls' = [polls EXCEPT !.pull = 0]
             /\ UNCHANGED <<exitCode, lastContent, pushes, userEdit, pushesClean>>
  /\ UNCHANGED <<watch, call, pushOnly, pullOnly, watcher, debounceTimer,
                 strayTimers, pollTimer, remote>>

\* performOneTimeSync has made the calls of its branch
OneShotDone ==
  IF ~pushOnly /\ ~pullOnly THEN Ops = <<"push", "pull">> ELSE Len(Ops) = 1

\* performOneTimeSync and syncCommand return; with nothing pending the process
\* ends with code 0
OneShotReturn ==
  /\ Running
  /\ ~watch
  /\ InFlight = 0
  /\ OneShotDone
  /\ ProcessExit("0")
  /\ log' = Quiet
  /\ UNCHANGED <<watch, performed, call, pushOnly, pullOnly, file, watcher,
                 debounceTimer, strayTimers, pollTimer, remote>>

\* the steps every watch session has
SessionNext ==
  \/ \E content \in UserFiles : UserEdit(content)
  \/ \E rows \in OtherRemotes : RemoteEdit(rows)
  \/ FsNotify
  \/ \E stray \in BOOLEAN, readOk \in BOOLEAN : DebounceFire(stray, readOk)
  \/ Sigint

\* the steps of the pushes that 'env-changed' starts (none with --pull-only)
PushNext ==
  \/ \E i \in 1..MaxInFlight : PushDelete(i)
  \/ \E i \in 1..MaxInFlight : PushInsert(i)
  \/ \E i \in 1..MaxInFlight, crash \in BOOLEAN : PushFail(i, crash)

\* the steps of the poller (none with --push-only)
PollNext ==
  \/ PollTick
  \/ \E netOk \in BOOLEAN : CheckRemoteChanges(netOk)
  \/ \E netOk \in BOOLEAN : PerformPull(netOk)
  \/ \E truncated \in BOOLEAN : PerformPullWriteFails(truncated)

Next == SessionNext \/ PushNext \/ PollNext

InitBidirectional == Init /\ ~pushOnly /\ ~pullOnly

\* envman sync --watch
Spec == InitBidirectional /\ [][Next]_vars

\* envman sync --watch --push-only: the poll timer is never set
NextPushOnly == SessionNext \/ PushNext

InitPushOnly == Init /\ pushOnly /\ ~pullOnly

SpecPushOnly == InitPushOnly /\ [][NextPushOnly]_vars

\* envman sync --watch --pull-only: 'env-changed' starts no push
\* envman sync --watch --push-only as the only client of the project, the
\* user's editor writing at any moment, also between the two reads of a fire
NextRereads ==
  \/ \E content \in UserFiles : UserEdit(content)
  \/ FsNotify
  \/ \E stray \in BOOLEAN, readOk \in BOOLEAN : DebounceFire(stray, readOk)
  \/ \E content \in UserFiles \cup {FileA1B2} : DebounceFireThenEdit(content)
  \/ Sigint
  \/ PushNext

SpecRereads == InitPushOnly /\ [][NextRereads]_vars

NextPullOnly == SessionNext \/ PollNext

InitPullOnly == Init /\ ~pushOnly /\ pullOnly

SpecPullOnly == InitPullOnly /\ [][NextPullOnly]_vars

\* envman sync --watch with every setting of the two direction flags
SpecWatch == Init /\ [][Next]_vars

\* the state when syncCommand calls performOneTimeSync, for every setting of the
\* two direction flags
InitOneShot ==
  /\ watch = FALSE
  /\ performed = <<>>
  /\ call = NoCall
  /\ pushOnly \in BOOLEAN
  /\ pullOnly \in BOOLEAN
  /\ exitCode = "none"
  /\ file \in UserFiles
  /\ fsEvent = FALSE
  /\ watcher = FALSE
  /\ lastContent = <<>>
  /\ debounceTimer = "null"
  /\ strayTimers = 0
  /\ pollTimer = FALSE
  /\ pushes = <<>>
  /\ polls = [check |-> 0, pull |-> 0]
  /\ remote \in OtherRemotes
  /\ log = Quiet
  /\ userEdit = FALSE
  /\ pushesClean = FALSE

NextOneShot ==
  \/ \E content \in UserFiles : UserEdit(content)
  \/ \E rows \in OtherRemotes : RemoteEdit(rows)
  \/ \E readOk \in BOOLEAN : OneShotPush(readOk)
  \/ PushDelete(1)
  \/ PushInsert(1)
  \/ OneShotPushFail
  \/ OneShotPull
  \/ \E netOk \in BOOLEAN : OneShotPerformPull(netOk)
  \/ OneShotReturn

\* envman sync, with or without --push-only / --pull-only
SpecOneShot == InitOneShot /\ [][NextOneShot]_vars

\* the files and the remote snapshots a sync that runs alone is started on;
\* call keeps the pair it was started on
AloneFiles == {<<>>, FileA1, FileA2, FileA1B2, FileA2B2}

AloneRemotes ==
  {EncryptVariables(ParseEnvFile(c), ProjectName, [i \in 1..2 |-> "iv0"]) :
     c \in {<<>>, FileA1, FileA2, FileA1B2, <<"B", "=", "2", NL>>}}
  \cup {EncryptVariables(ParseEnvFile(FileA2), "other", [i \in 1..2 |-> "iv0"])}

InitOneShotAlone ==
  /\ watch = FALSE
  /\ performed = <<>>
  /\ file \in AloneFiles
  /\ remote \in AloneRemotes
  /\ call = [fn |-> "performOneTimeSync", file |-> file, remote |-> remote]
  /\ pushOnly = FALSE
  /\ pullOnly = FALSE
  /\ exitCode = "none"
  /\ fsEvent = FALSE
  /\ watcher = FALSE
  /\ lastContent = <<>>
  /\ debounceTimer = "null"
  /\ strayTimers = 0
  /\ pollTimer = FALSE
  /\ pushes = <<>>
  /\ polls = [check |-> 0, pull |-> 0]
  /\ log = Quiet
  /\ userEdit = FALSE
  /\ pushesClean = FALSE

\* envman sync with neither flag, while nobody else writes the file or the
\* remote; its calls can still fail
NextOneShotAlone ==
  \/ \E readOk \in BOOLEAN : OneShotPush(readOk)
  \/ PushDelete(1)
  \/ PushInsert(1)
  \/ OneShotPushFail
  \/ OneShotPull
  \/ \E netOk \in BOOLEAN : OneShotPerformPull(netOk)
  \/ OneShotReturn

SpecOneShotAlone == InitOneShotAlone /\ [][NextOneShotAlone]_vars

\* envman sync --pull-only, with --watch and without: the pulls of the poller and
\* the pull of performOneTimeSync
InitPulls == (Init \/ InitOneShot) /\ ~pushOnly /\ pullOnly

NextPulls ==
  \/ watch /\ NextPullOnly
  \/ /\ ~watch
     /\ \/ \E content \in UserFiles : UserEdit(content)
        \/ \E rows \in OtherRemotes : RemoteEdit(rows)
        \/ OneShotPull
        \/ \E netOk \in BOOLEAN : OneShotPerformPull(netOk)
        \/ OneShotReturn

SpecPulls == InitPulls /\ [][NextPulls]_vars

\* the state when syncCommand calls startWatchMode with one direction flag
InitBaseline ==
  /\ watch = TRUE
  /\ performed = <<>>
  /\ call = NoCall
  /\ pushOnly \in BOOLEAN
  /\ pullOnly = ~pushOnly
  /\ exitCode = "none"
  /\ file \in UserFiles
  /\ fsEvent = FALSE
  /\ watcher = FALSE
  /\ lastContent = <<>>
  /\ debounceTimer = "null"
  /\ strayTimers = 0
  /\ pollTimer = FALSE
  /\ pushes = <<>>
  /\ polls = [check |-> 0, pull |-> 0]
  /\ remote \in OtherRemotes
  /\ log = Quiet
  /\ userEdit = FALSE
  /\ pushesClean = FALSE

\* startWatchMode up to its final await: new FileWatcher(), watcher.watch(envFile)
\* and, unless --push-only, setInterval; readOk = FALSE when the fs.readFileSync
\* of watch() throws
StartWatchMode(readOk) ==
  /\ Running
  /\ watch
  /\ ~watcher
  /\ watcher' = TRUE
  /\ lastContent' = IF readOk THEN file ELSE <<>>
  /\ pollTimer' = ~pushOnly
  /\ userEdit' = FALSE
  /\ log' = Logged("started")
  /\ UNCHANGED <<watch, performed, call>>
  /\ UNCHANGED <<pushOnly, pullOnly, exitCode, file, fsEvent, debounceTimer,
                 strayTimers, pushes, polls, remote, pushesClean>>

\* envman sync --watch --push-only and envman sync --watch --pull-only, from
\* the call of startWatchMode on; the SIGINT handler is there once
\* startWatchMode has registered it
NextBaseline ==
  \/ \E readOk \in BOOLEAN : StartWatchMode(readOk)
  \/ \E content \in UserFiles : UserEdit(content)
  \/ \E rows \in OtherRemotes : RemoteEdit(rows)
  \/ FsNotify
  \/ \E stray \in BOOLEAN, readOk \in BOOLEAN : DebounceFire(stray, readOk)
  \/ watcher /\ Sigint
  \/ PushNext
  \/ PollNext

SpecBaseline == InitBaseline /\ [][NextBaseline]_vars

\* the state when a bidirectional startWatchMode reaches its final await, for
\* every pair of a local file and a remote snapshot this project's key opens
InitLive ==
  /\ watch = TRUE
  /\ performed = <<>>
  /\ call = NoCall
  /\ pushOnly = FALSE
  /\ pullOnly = FALSE
  /\ exitCode = "none"
  /\ file \in UserFiles \cup {FileA2, FileA1B2}
  /\ fsEvent = FALSE
  /\ watcher = TRUE
  /\ lastContent = file
  /\ debounceTimer = "null"
  /\ strayTimers = 0
  /\ pollTimer = TRUE
  /\ pushes = <<>>
  /\ polls = [check |-> 0, pull |-> 0]
  /\ remote \in {rows \in OtherRemotes : DecryptVariables(rows, ProjectName).ok}
  /\ log = Quiet
  /\ userEdit = FALSE
  /\ pushesClean = FALSE

\* envman sync --watch left alone: nobody edits the file or the remote, no call
\* fails and the session is not interrupted
NextLive ==
  \/ FsNotify
  \/ DebounceFire(FALSE, TRUE)
  \/ \E i \in 1..MaxInFlight : PushDelete(i)
  \/ \E i \in 1..MaxInFlight : PushInsert(i)
  \/ PollTick
  \/ CheckRemoteChanges(TRUE)
  \/ PerformPull(TRUE)

\* chokidar delivers what it holds and a timeout that is set fires; a call that
\* awaits a response gets it; the interval keeps ticking
FairLive ==
  /\ WF_vars(FsNotify)
  /\ WF_vars(DebounceFire(FALSE, TRUE))
  /\ WF_vars(\E i \in 1..MaxInFlight : PushDelete(i) \/ PushInsert(i))
  /\ WF_vars(CheckRemoteChanges(TRUE))
  /\ WF_vars(PerformPull(TRUE))
  /\ WF_vars(PollTick)

SpecLive == InitLive /\ [][NextLive]_vars /\ FairLive

(***************************************************************************)
(* EncryptionManager on its own: encryptVariables of a snapshot, the       *)
(* records as a remote table can hand them back, decryptVariables          *)
(***************************************************************************)
\* the session variables, which the functions applied on their own leave alone
session == <<watch, performed, pushOnly, pullOnly, exitCode, file, fsEvent, watcher,
             lastContent, debounceTimer, strayTimers, pollTimer, pushes, polls,
             remote, log, userEdit, pushesClean>>

\* no sync session is under way
NoSession ==
  /\ watch = FALSE
  /\ performed = <<>>
  /\ pushOnly = FALSE
  /\ pullOnly = FALSE
  /\ exitCode = "none"
  /\ file = <<>>
  /\ fsEvent = FALSE
  /\ watcher = FALSE
  /\ lastContent = <<>>
  /\ debounceTimer = "null"
  /\ strayTimers = 0
  /\ pollTimer = FALSE
  /\ pushes = <<>>
  /\ polls = [check |-> 0, pull |-> 0]
  /\ remote = <<>>
  /\ log = Quiet
  /\ userEdit = FALSE
  /\ pushesClean = FALSE

\* the most variables of a snapshot given to encryptVariables
MaxVars == 2

KeySecret == <<"K", "E", "Y">>

\* values of variables: empty, plain, and one a secretPattern matches
PlainValues == {<<>>, <<"1">>, <<"t", "o", "k", "e", "n">>}

\* the Record<string,string> values with keys among `keys`, at most n of them
Snapshots(keys, values, n) ==
  UNION {{v \in [1..m -> keys \X values] :
            \A i, j \in 1..m : i # j => v[i][1] # v[j][1]} : m \in 0..n}

\* project names: this project's and another one's
DerivationKeys == {ProjectName, "other"}

\* outcomes of crypto.randomBytes(16)
RandomIVs == {"iv0", "iv1"}

\* the hex string cut after the digits of its first n bytes
CutHex(string, n) ==
  IF n < string.hex.len
  THEN [hex |-> [of |-> string.hex.of, len |-> n], rest |-> <<>>]
  ELSE string

\* what a column of a record can hold in place of the hex string written to it
Damaged(string, column, how) ==
  CASE how = "junk appended" -> [string EXCEPT !.rest = <<"z", "z">>]
    [] how = "cut to 4 bytes" -> CutHex(string, 4)
    [] how = "cut to nothing" -> CutHex(string, 0)
    [] how = "of another record" ->
         EncryptValue(<<"9">>, ProjectName, "iv9")[column]

Damages == {"junk appended", "cut to 4 bytes", "cut to nothing", "of another record"}

Columns == {"encryptedValue", "iv", "authTag"}

\* a snapshot and the project name an EncryptionManager is constructed with
InitCrypto ==
  /\ NoSession
  /\ \E S \in Snapshots({KeyA, KeyB, KeySecret}, PlainValues, MaxVars),
        derivationKey \in DerivationKeys :
       call = [fn |-> "new EncryptionManager", vars |-> S,
               derivationKey |-> derivationKey, encrypted |-> <<>>,
               damage |-> "none", column |-> "none", with |-> derivationKey,
               result |-> [ok |-> FALSE, vars |-> <<>>]]

\* encryption.encryptVariables(vars)
CallEncryptVariables(ivs) ==
  /\ call.fn = "new EncryptionManager"
  /\ call' = [call EXCEPT !.fn = "encryptVariables",
                          !.encrypted = EncryptVariables(call.vars, call.derivationKey, ivs)]
  /\ UNCHANGED session

\* a column of a stored record comes back other than it was written
Damage(i, column, how) ==
  /\ call.fn = "encryptVariables"
  /\ call.damage = "none"
  /\ i \in 1..Len(call.encrypted)
  /\ Damaged(call.encrypted[i][column], column, how) # call.encrypted[i][column]
  /\ call' = [call EXCEPT !.damage = how,
                          !.column = column,
                          !.encrypted[i][column] = Damaged(@, column, how)]
  /\ UNCHANGED session

\* new EncryptionManager(derivationKey).decryptVariables(encrypted)
CallDecryptVariables(derivationKey) ==
  /\ call.fn = "encryptVariables"
  /\ call' = [call EXCEPT !.fn = "decryptVariables",
                          !.with = derivationKey,
                          !.result = DecryptVariables(call.encrypted, derivationKey)]
  /\ UNCHANGED session

NextCrypto ==
  \/ \E ivs \in [1..MaxVars -> RandomIVs] : CallEncryptVariables(ivs)
  \/ \E i \in 1..MaxVars, column \in Columns, how \in Damages : Damage(i, column, how)
  \/ \E derivationKey \in DerivationKeys : CallDecryptVariables(derivationKey)

SpecCrypto == InitCrypto /\ [][NextCrypto]_vars

(***************************************************************************)
(* The ivs of successive pushes.  crypto.randomBytes is the generator of   *)
(* the operating system: its outputs are named by the number of the draw,  *)
(* and two draws of 16 bytes are taken to differ (they coincide with       *)
(* probability 2^-128).  `call` holds the number of draws made and the     *)
(* records of the encryptVariables calls so far.                           *)
(***************************************************************************)
\* the most encryptVariables calls (pushes) followed
MaxPushes == 2

\* the outputs of the next n calls of crypto.randomBytes(16) after `drawn` draws
RandomBytes(drawn, n) == [i \in 1..n |-> drawn + i]

InitIVs ==
  /\ NoSession
  /\ call = [fn |-> "new EncryptionManager", drawn |-> 0, pushed |-> <<>>]

\* performPush: new EncryptionManager(projectName).encryptVariables(variables);
\* encryptValue draws an iv for each variable in turn
PushEncryptVariables(variables) ==
  /\ Len(call.pushed) < MaxPushes
  /\ call' = [fn |-> "encryptVariables",
              drawn |-> call.drawn + Len(variables),
              pushed |-> Append(call.pushed,
                                EncryptVariables(variables, ProjectName,
                                                 RandomBytes(call.drawn, Len(variables))))]
  /\ UNCHANGED session

NextIVs ==
  \E variables \in Snapshots({KeyA, KeyB}, {<<"1">>, <<"2">>}, MaxVars) :
    PushEncryptVariables(variables)

SpecIVs == InitIVs /\ [][NextIVs]_vars

(***************************************************************************)
(* core/file-watcher: a FileWatcher on its own, as startWatchMode makes it *)
(* under --pull-only (its 'env-changed' listener starts nothing), with     *)
(* watch() and stop() called in any order.  `call` holds the latest call:  *)
(* whether the call before it was the same, and for stop() whether it or   *)
(* the stop() calls just before it found a timer pending.                  *)
(***************************************************************************)
\* new FileWatcher(): no chokidar watcher, no timer, lastContent = ''
InitFileWatcher ==
  /\ watch = TRUE
  /\ performed = <<>>
  /\ call = [fn |-> "new FileWatcher", again |-> FALSE, cancelled |-> FALSE]
  /\ pushOnly = FALSE
  /\ pullOnly = TRUE
  /\ exitCode = "none"
  /\ file \in UserFiles
  /\ fsEvent = FALSE
  /\ watcher = FALSE
  /\ lastContent = <<>>
  /\ debounceTimer = "null"
  /\ strayTimers = 0
  /\ pollTimer = FALSE
  /\ pushes = <<>>
  /\ polls = [check |-> 0, pull |-> 0]
  /\ remote = <<>>
  /\ log = Quiet
  /\ userEdit = FALSE
  /\ pushesClean = FALSE

\* FileWatcher.watch(filePath); readOk = FALSE when fs.readFileSync throws.
\* A watcher that exists is stopped first; the new chokidar watcher reports
\* changes made from now on.
CallWatch(readOk) ==
  /\ call' = [fn |-> "watch", again |-> call.fn = "watch", cancelled |-> FALSE]
  /\ lastContent' = IF readOk THEN file ELSE <<>>
  /\ watcher' = TRUE
  /\ debounceTimer' = IF watcher THEN "null" ELSE debounceTimer
  /\ fsEvent' = FALSE
  /\ userEdit' = FALSE
  /\ log' = Logged("started")
  /\ UNCHANGED <<watch, performed, pushOnly, pullOnly, exitCode, file, strayTimers,
                 pollTimer, pushes, polls, remote, pushesClean>>

\* FileWatcher.stop(), called by the owner of the object
CallStop ==
  /\ call' = [fn |-> "stop", again |-> call.fn = "stop",
              cancelled |-> \/ debounceTimer = "live"
                            \/ call.fn = "stop" /\ call.cancelled]
  /\ Stop
  /\ log' = IF watcher THEN Logged("stopped") ELSE Quiet
  /\ UNCHANGED <<watch, performed, pushOnly, pullOnly, exitCode, file, fsEvent,
                 lastContent, pollTimer, pushes, polls, remote, userEdit,
                 pushesClean>>

NextFileWatcher ==
  \/ \E c \in UserFiles \cup {FileA2} : UserEdit(c)
  \/ \E readOk \in BOOLEAN : CallWatch(readOk)
  \/ CallStop
  \/ FsNotify
  \/ \E readOk \in BOOLEAN : DebounceFire(FALSE, readOk)

SpecFileWatcher == InitFileWatcher /\ [][NextFileWatcher]_vars

(***************************************************************************)
(* utils/env-parser on its own: a snapshot is written in the local file    *)
(* format (writeEnvFile, and the same text in performPull) and the content *)
(* is parsed back by parseEnvFile                                          *)
(***************************************************************************)
\* values of variables over an alphabet with '=', the two quotes and the space
FileValues ==
  {<<>>, <<"1">>, <<"=">>, <<"a", "=", "b">>, <<"a", " ", "b">>, <<"a", "'", "b">>,
   <<"\"">>, <<"\"", "1", "\"">>, <<"'", "1">>, <<" ", "1">>}

\* keys as parseEnvFile makes them
FileKeys == {KeyA, KeyB, <<"A", "_", "B">>}

InitEnvFile ==
  /\ NoSession
  /\ \E S \in Snapshots(FileKeys, FileValues, MaxVars) :
       call = [fn |-> "snapshot", vars |-> S, content |-> <<>>, result |-> <<>>]

\* writeEnvFile(filePath, vars): the content written
CallWriteEnvFile ==
  /\ call.fn = "snapshot"
  /\ call' = [call EXCEPT !.fn = "writeEnvFile", !.content = Serialize(call.vars)]
  /\ UNCHANGED session

\* parseEnvFile(filePath) of the file that holds the content
CallParseEnvFile ==
  /\ call.fn = "writeEnvFile"
  /\ call' = [call EXCEPT !.fn = "parseEnvFile", !.result = ParseEnvFile(call.content)]
  /\ UNCHANGED session

NextEnvFile == CallWriteEnvFile \/ CallParseEnvFile

SpecEnvFile == InitEnvFile /\ [][NextEnvFile]_vars

(***************************************************************************)
(* The differs on their own: FileWatcher.calculateChanges on two file      *)
(* contents, calculateDiff of commands/diff on two records; and the        *)
(* detector of a --pull-only watch session whose baseline holds the first  *)
(* snapshot when its timer fires on a file that holds the second           *)
(***************************************************************************)
KeyToString == <<"t", "o", "S", "t", "r", "i", "n", "g">>

\* the snapshots the differs are given: every record, in every order of its
\* keys, of at most MaxVars variables
DiffSnapshots == Snapshots({KeyA, KeyB, KeyToString}, {<<"1">>, <<"2">>}, MaxVars)

InitDiffer ==
  /\ \E base \in DiffSnapshots, other \in DiffSnapshots :
       /\ call = [fn |-> "snapshots", base |-> base, other |-> other,
                  result |-> NoChanges]
       /\ lastContent = Serialize(base)
       /\ file = Serialize(other)
  /\ watch = TRUE
  /\ performed = <<>>
  /\ pushOnly = FALSE
  /\ pullOnly = TRUE
  /\ exitCode = "none"
  /\ fsEvent = FALSE
  /\ watcher = TRUE
  /\ debounceTimer = "live"
  /\ strayTimers = 0
  /\ pollTimer = TRUE
  /\ pushes = <<>>
  /\ polls = [check |-> 0, pull |-> 0]
  /\ remote = <<>>
  /\ log = Quiet
  /\ userEdit = TRUE
  /\ pushesClean = FALSE

\* this.calculateChanges(oldContent, newContent).variables, on the contents
\* whose lines hold the two snapshots
CallCalculateChanges ==
  /\ call.fn = "snapshots"
  /\ call' = [call EXCEPT !.fn = "calculateChanges",
                          !.result = CalculateChanges(Serialize(call.base),
                                                      Serialize(call.other))]
  /\ UNCHANGED session

\* calculateDiff(local, remote)
CallCalculateDiff ==
  /\ call.fn = "snapshots"
  /\ call' = [call EXCEPT !.fn = "calculateDiff",
                          !.result = CalculateDiff(call.base, call.other)]
  /\ UNCHANGED session

NextDiffer ==
  \/ CallCalculateChanges
  \/ CallCalculateDiff
  \/ \E readOk \in BOOLEAN : DebounceFire(FALSE, readOk)

SpecDiffer == InitDiffer /\ [][NextDiffer]_vars

(***************************************************************************)
(* Claims                                                                  *)
(***************************************************************************)
\* the steps in which the timeout that debounceTimer refers to fires
BurstEnds == debounceTimer = "live" /\ debounceTimer' = "expired"

\* a checkRemoteChanges call ends
PollEnds == polls'.check + polls'.pull = polls.check + polls.pull - 1

PollFailed(l) == l.msg \in {"Remote check failed", "Pull failed"}

\* C1: in a watch session that pushes, at most one push is in flight at any
\* instant; an 'env-changed' event during a push starts no second push.
C1_AtMostOnePushInFlight == Len(pushes) <= 1

\* C2: every 'env-changed' event answers an edit by the user; the write of a
\* poll-triggered pull produces no event (and so no push).
C2_NoEventForOwnWrite == [][log'.msg = "env-changed" => userEdit]_vars

C4_PushFailureKeepsSession ==
  log.msg = "Push failed" => exitCode = "none" /\ watcher /\ pollTimer = ~pushOnly

\* C5: a poll tick whose remote call or decryption fails is skipped: the file
\* is not written, the session and the poll timer go on, the failed call is
\* not retried in-line, and a later tick can poll again.
C5_FailedPollIsSkipped ==
  [][PollFailed(log') =>
       /\ PollEnds
       /\ file' = file /\ fsEvent' = fsEvent
       /\ exitCode' = "none"
       /\ pollTimer' /\ watcher'
       /\ remote' = remote
       /\ pushes' = pushes]_vars

\* C5 witness: a tick has just failed on rows that do not decrypt, with the
\* poll timer still live
C5_Witness ==
  /\ log.msg = "Remote check failed"
  /\ ~DecryptVariables(remote, ProjectName).ok
  /\ pollTimer /\ exitCode = "none"

\* C6: on SIGINT the watcher is stopped, its pending debounce timer and the
\* poll timer are cancelled, and the process exits with code 0; while the
\* session runs both are live (never one without the other), and after the
\* exit nothing happens any more.
C6_ShutdownIsComplete ==
  [][/\ exitCode = "none" /\ exitCode' = "none" =>
          watcher' /\ pollTimer' = ~pushOnly
     /\ exitCode = "none" /\ log'.msg = "Stopping sync mode" =>
          /\ exitCode' = "0"
          /\ ~watcher' /\ debounceTimer' = "null" /\ strayTimers' = 0
          /\ ~pollTimer'
          /\ InFlight' = 0
     /\ exitCode # "none" => UNCHANGED vars]_vars

\* C6 witness: the session was interrupted with a debounce timer pending; after
\* the exit no timer and no subscription is left
C6_Witness ==
  /\ exitCode = "0"
  /\ ~watcher /\ ~pollTimer /\ debounceTimer = "null"

\* C7: a poll-driven pull never overlaps a push triggered by a local change.
C7_PushAndPullSerialized == ~(Len(pushes) > 0 /\ polls.pull > 0)

\* C8: at most one poll-driven pull is in flight at any instant.
C8_AtMostOnePullInFlight == polls.pull <= 1

\* C9: once every started push has completed successfully (and no other client
\* wrote meanwhile), the remote holds exactly the snapshot of the most recent
\* triggering change, one row per key.
C9_PushesTakeEffectInOrder ==
  pushesClean /\ Len(pushes) = 0 =>
    LET d == DecryptVariables(remote, ProjectName)
    IN /\ d.ok
       /\ Len(remote) = Len(d.vars)
       /\ AsMap(d.vars) = AsMap(ParseEnvFile(lastContent))

\* C10: when a poll tick completes without error on a non-empty remote
\* snapshot, the parsed local file equals the remote snapshot (any difference,
\* removals included, has been written over the file).
C10_PollLeavesLocalEqualRemote ==
  [][PollEnds /\ exitCode' = "none" /\ ~PollFailed(log') /\ Len(remote) > 0 =>
       AsMap(ParseEnvFile(file')) = AsMap(DecryptVariables(remote, ProjectName).vars)]_vars

\* the calls the claimed contract gives a one-shot sync, by direction (the two
\* flags together are no direction of the contract)
Expected ==
  IF ~pushOnly /\ ~pullOnly THEN <<"push", "pull">>
  ELSE IF pushOnly THEN <<"push">> ELSE <<"pull">>

IsPrefix(a, b) == Len(a) <= Len(b) /\ a = SubSeq(b, 1, Len(a))

\* C11: a one-shot sync makes the calls of its direction and no other: push then
\* pull when neither flag is set, one push with --push-only, one pull with
\* --pull-only, one remote call each; the pull starts only when the push has
\* returned and the process has not failed; the process ends with code 0 only
\* with all calls made and returned; no watcher or timer ever exists, and
\* nothing runs after the end.
C11_OneShotSequence ==
  [][/\ ~(pushOnly /\ pullOnly) => IsPrefix(Ops', Expected)
     /\ Len(pushes') <= 1 /\ polls'.pull <= 1 /\ polls'.check = 0
     /\ Len(Ops') > Len(Ops) /\ Ops'[Len(Ops')] = "pull"
          => Len(pushes) = 0 /\ exitCode = "none" /\ Ops = SubSeq(Expected, 1, Len(Ops))
     /\ exitCode = "none" /\ exitCode' = "0" /\ ~(pushOnly /\ pullOnly)
          => Ops = Expected /\ InFlight = 0
     /\ ~watcher' /\ ~pollTimer' /\ debounceTimer' = "null" /\ strayTimers' = 0
     /\ exitCode # "none" => UNCHANGED vars]_vars

\* a sync with neither flag has ended with code 0 after its push and its pull
C11_Witness ==
  /\ ~pushOnly /\ ~pullOnly
  /\ exitCode = "0"
  /\ Ops = <<"push", "pull">>
  /\ ~watcher /\ ~pollTimer

\* a step that reports a failed push, pull or sync
ReportsFailure == log'.msg \in {"Push failed", "Pull failed", "Sync failed"}

C13_DirectionFlags ==
  [][/\ exitCode' = "none" => watcher' /\ pollTimer' = ~pushOnly
     /\ pushOnly => /\ polls' = [check |-> 0, pull |-> 0]
                    /\ log'.msg # "Pulled"
                    /\ file' # file => userEdit' /\ fsEvent'
     /\ pullOnly => /\ pushes' = <<>>
                    /\ remote' # remote => remote' \in OtherRemotes /\ ~pushesClean']_vars

\* C13: a watch session runs its detector, and its poller unless --push-only;
\* --push-only never polls, pulls or writes the file; --pull-only never pushes;
\* and the session ends only by the cancellation signal, with code 0.
C13_WatchModeContract ==
  [][/\ exitCode' = "none" => watcher' /\ pollTimer' = ~pushOnly
     /\ pushOnly => /\ polls' = [check |-> 0, pull |-> 0]
                    /\ log'.msg # "Pulled"
                    /\ file' # file => userEdit' /\ fsEvent'
     /\ pullOnly => /\ pushes' = <<>>
                    /\ remote' # remote => remote' \in OtherRemotes /\ ~pushesClean'
     /\ exitCode = "none" /\ exitCode' # "none"
          => exitCode' = "0" /\ log'.msg = "Stopping sync mode"]_vars

\* C14: pushVariables replaces the records of (project, environment)
\* atomically: every step of a push, whether the push goes on, returns or
\* fails, leaves the records as they were or leaves exactly the complete
\* pushed set, one record per key - never an empty, partial or mixed set.
C14_PushIsAtomic ==
  [][Len(pushes) = 1 /\ pushes' # pushes
       => \/ remote' = remote
          \/ /\ remote' = pushes[1].vars
             /\ Cardinality({remote'[i].key : i \in 1..Len(remote')}) = Len(remote')]_vars

\* C15: when a push of snapshot S has succeeded and nobody has pushed since,
\* the pull of the same (project, environment), decrypted with the project
\* key, returns exactly S: the same keys, each with the same value.
C15_PushThenPullReturnsPushed ==
  pushesClean /\ exitCode = "none" /\ Ops = <<"push", "pull">> /\ polls.pull = 0
    => /\ KeysOf(performed[2].vars) = KeysOf(performed[1].vars)
       /\ Len(performed[2].vars) = Len(performed[1].vars)
       /\ AsMap(performed[2].vars) = AsMap(performed[1].vars)

\* the pull after an undisturbed push of A=2, B=2 has returned
C15_Witness ==
  /\ pushesClean /\ exitCode = "none" /\ Ops = <<"push", "pull">> /\ polls.pull = 0
  /\ performed[1].vars = ParseEnvFile(FileA2B2)
  /\ performed[2].vars = ParseEnvFile(FileA2B2)

C17_MismatchIsDetected ==
  call.fn = "decryptVariables" /\ Len(call.encrypted) > 0
    /\ \/ call.with # call.derivationKey
       \/ call.damage \in {"of another record", "cut to nothing"}
       \/ call.damage = "cut to 4 bytes" /\ call.column # "authTag"
    => call.result = [ok |-> FALSE, vars |-> <<>>]

\* C17: decryptVariables fails, returning no map, whenever a record's
\* ciphertext, iv or authTag is not what encryption wrote (corrupt or
\* mismatched) or was written under another key.
C17_CorruptRecordFails ==
  call.fn = "decryptVariables" /\ Len(call.encrypted) > 0
    /\ (call.with # call.derivationKey \/ call.damage # "none")
    => call.result = [ok |-> FALSE, vars |-> <<>>]

\* the keys a differ has put in its modified list
ModifiedKeys ==
  IF call.fn = "calculateDiff" THEN {m.key : m \in call.result.modified}
  ELSE call.result.modified

\* the result of the differ is the change set of the two mappings
IsChangeSet ==
  LET base == AsMap(call.base)
      other == AsMap(call.other)
  IN /\ call.result.added = DOMAIN other \ DOMAIN base
     /\ ModifiedKeys = {k \in DOMAIN other \cap DOMAIN base : other[k] # base[k]}
     /\ call.result.removed = DOMAIN base \ DOMAIN other
     /\ call.result.added \cap ModifiedKeys = {}
     /\ call.result.added \cap call.result.removed = {}
     /\ ModifiedKeys \cap call.result.removed = {}

\* the part of C18 the code keeps: for snapshots none of whose keys is the name
\* of a property of Object.prototype, both differs return the change set
C18_DifferOnOrdinaryKeys ==
  call.fn \in {"calculateChanges", "calculateDiff"}
    /\ (KeysOf(call.base) \cup KeysOf(call.other)) \cap ObjectPrototypeKeys = {}
    => IsChangeSet

\* C18: for snapshots base and other both differs return added = the keys of
\* other that base lacks, modified = the keys of both whose values differ,
\* removed = the keys of base that other lacks: pairwise disjoint sets that
\* depend on the two mappings only, not on the order of their keys or lines.
C18_DifferReturnsChangeSet ==
  call.fn \in {"calculateChanges", "calculateDiff"} => IsChangeSet

\* C19: for every snapshot S both differs return three empty sets for (S, S),
\* whatever the order of its keys or lines; hence a fire of the debounce timer
\* on a file whose parsed content equals the baseline's emits no event and
\* leaves the baseline alone.
C19_DiffOfEqualIsEmpty ==
  /\ call.fn \in {"calculateChanges", "calculateDiff"}
       /\ AsMap(call.base) = AsMap(call.other)
       => /\ call.result.added = {}
          /\ call.result.modified = {}
          /\ call.result.removed = {}
  /\ debounceTimer = "expired"
       /\ AsMap(ParseEnvContent(Serialize(call.base)))
            = AsMap(ParseEnvContent(Serialize(call.other)))
       => /\ log.msg # "env-changed"
          /\ lastContent = Serialize(call.base)

\* the timer has fired, and calculateChanges has been applied, for a snapshot of
\* two variables against itself
C19_Witness ==
  /\ call.fn = "calculateChanges"
  /\ debounceTimer = "expired"
  /\ call.base = call.other
  /\ KeysOf(call.base) = {KeyA, KeyToString}
  /\ log = Quiet

\* C20: stop() leaves the FileWatcher with no chokidar watcher and no pending
\* timer; while it has no watcher (after stop(), a change notification received
\* before it included, or before watch()) no step emits 'env-changed'; and a
\* stop() of a FileWatcher that has no watcher changes none of its fields and
\* emits no 'stopped'.
C20_StopCancelsAndIsIdempotent ==
  [][/\ CallStop => ~watcher' /\ debounceTimer' = "null"
     /\ ~watcher => log'.msg # "env-changed"
     /\ CallStop /\ ~watcher
          => /\ UNCHANGED <<watcher, debounceTimer, strayTimers, lastContent>>
             /\ log'.msg # "stopped"]_vars

\* stop() has cancelled a pending timer, and has then been called once more
C20_Witness ==
  /\ call = [fn |-> "stop", again |-> TRUE, cancelled |-> TRUE]
  /\ ~watcher
  /\ debounceTimer = "null"
  /\ lastContent # file

\* a debounce timeout fires and fs.readFileSync throws
FireFailsToRead == \E stray \in BOOLEAN : DebounceFire(stray, FALSE)

\* C21: a fire of the debounce timer that fails to re-read the file emits
\* 'error' (logged by the handler of startWatchMode) and no 'env-changed',
\* starts no push, leaves the baseline as it was and the session watching;
\* 'error' is emitted by such a fire only; the notification that follows starts
\* a timer again; and every fire that reads the file emits the difference
\* between the baseline (which a failed fire has left alone) and the content
\* read, if there is one, and nothing otherwise.
C21_ReadFailureKeepsBaseline ==
  [][/\ FireFailsToRead
          => /\ log' = Logged("Watcher error")
             /\ lastContent' = lastContent
             /\ pushes' = pushes
             /\ watcher' /\ exitCode' = "none"
             /\ userEdit' = userEdit
     /\ log'.msg = "Watcher error" => FireFailsToRead
     /\ log.msg = "Watcher error" /\ FsNotify => debounceTimer' = "live"
     /\ BurstEnds /\ log'.msg # "Watcher error"
          => LET changes == CalculateChanges(lastContent, file)
             IN IF changes # NoChanges
                THEN log' = [msg |-> "env-changed", changes |-> changes]
                     /\ lastContent' = file
                ELSE log' = Quiet /\ lastContent' = lastContent]_vars

\* the timer has fired on an edit of the user and the file could not be read:
\* the baseline still holds the content from before the edit, the detector
\* watches, and the edit is still to be reported
C21_Witness ==
  /\ log.msg = "Watcher error"
  /\ watcher /\ exitCode = "none"
  /\ debounceTimer = "expired"
  /\ userEdit
  /\ lastContent = FileA1 /\ file = FileA2B2

\* C22: in a watch session a failure of the write of the local file in a
\* poll-driven pull ends the session: the step that reports it leaves the
\* process exited, not polling on.
C22_WriteFailureIsFatal ==
  [][log'.msg = "Write failed" => exitCode' # "none"]_vars

\* the values parseEnvFile returns as written: no white space and no quote at
\* either end
IsBare(v) == Trim(v) = v /\ StripQuotes(v) = v

\* the part of C23 the code keeps: a snapshot whose values have no white space
\* and no quote at either end is parsed back as it was written, key by key in
\* the same order; '=' in a value, and quotes and spaces inside it, survive
C23_RoundTripOfBareValues ==
  call.fn = "parseEnvFile" /\ (\A i \in 1..Len(call.vars) : IsBare(call.vars[i][2]))
    => call.result = call.vars

\* C23: every snapshot of keys and string values, values with '=', quotes and
\* spaces included, written in the local file format and parsed back by
\* parseEnvFile, is returned unchanged: the same keys, each with its value.
C23_SerializeParseRoundTrip ==
  call.fn = "parseEnvFile" => AsMap(call.result) = AsMap(call.vars)

\* a pullVariables call of performPull or checkRemoteChanges returns
PullReturns ==
  PerformPull(TRUE) \/ OneShotPerformPull(TRUE) \/ CheckRemoteChanges(TRUE)

\* C24: when the remote has no row for (project, environment) - no project, no
\* environment or no variable: pullVariables answers with no data - a pull that
\* returns, in a one-shot sync or in a poll, leaves the local file as it is,
\* reports nothing, starts no write and goes on; and while the remote is empty
\* the file changes by the hand of the user only.
C24_EmptyPullLeavesFile ==
  [][/\ remote = <<>> /\ PullReturns
          => /\ file' = file
             /\ fsEvent' = fsEvent
             /\ log' = Quiet
             /\ exitCode' = "none"
             /\ polls'.pull <= polls.pull
     /\ remote = <<>> /\ file' # file => \E content \in UserFiles : UserEdit(content)]_vars

\* the pull of a one-shot sync has returned from an empty remote; the file
\* holds its two variables
C24_Witness ==
  /\ ~watch /\ Ops = <<"pull">> /\ polls.pull = 0
  /\ exitCode = "none"
  /\ remote = <<>>
  /\ performed[1].vars = <<>>
  /\ file = FileA2B2
  /\ log = Quiet

\* the records encrypted so far, each with the push and the place it was made at
Encrypted ==
  UNION {{<<p, i>> : i \in 1..Len(call.pushed[p])} : p \in 1..Len(call.pushed)}

\* C25: every record has an iv of its own: any two records, of one push or of
\* two, of different values or of the same value under the same key, differ
\* in their iv, and so in their ciphertext and in their (ciphertext, iv) pair;
\* each encryption has made one draw of randomBytes.
C25_FreshIvPerEncryption ==
  /\ \A r, s \in Encrypted :
       r # s => LET a == call.pushed[r[1]][r[2]]
                    b == call.pushed[s[1]][s[2]]
                IN /\ a.iv # b.iv
                   /\ a.encryptedValue # b.encryptedValue
                   /\ <<a.encryptedValue, a.iv>> # <<b.encryptedValue, b.iv>>
  /\ call.drawn = Cardinality(Encrypted)

\* two pushes of the same snapshot, whose two variables hold the same value,
\* have been encrypted
C25_Witness ==
  /\ Len(call.pushed) = 2
  /\ Len(call.pushed[1]) = 2 /\ Len(call.pushed[2]) = 2
  /\ \A r, s \in Encrypted :
       DecryptValue(call.pushed[r[1]][r[2]].encryptedValue, call.pushed[r[1]][r[2]].iv,
                    call.pushed[r[1]][r[2]].authTag, ProjectName)
         = [ok |-> TRUE, value |-> <<"1">>]

\* a debounce timeout fires
Fires == \E stray \in BOOLEAN, readOk \in BOOLEAN : DebounceFire(stray, readOk)

\* C26: while the process runs the baseline is written by watch(), to the
\* content of the file it reads, and by a fire of the debounce timer that emits
\* 'env-changed', and by nothing else; every event is emitted by a fire, carries
\* the non-empty difference between the baseline before the fire and the content
\* read, and leaves the baseline equal to that content; a fire that reads the
\* file and finds no difference emits nothing and keeps the baseline; no step
\* of a push, a poll or a pull changes the baseline.
C26_BaselineWrittenByDetectorOnly ==
  [][/\ StartWatchMode(TRUE) => lastContent' = file
     /\ lastContent' # lastContent /\ exitCode' = "none"
          => \/ \E readOk \in BOOLEAN : StartWatchMode(readOk)
             \/ Fires /\ log'.msg = "env-changed"
     /\ log'.msg = "env-changed"
          => /\ Fires
             /\ log'.changes = CalculateChanges(lastContent, file)
             /\ log'.changes # NoChanges
             /\ lastContent' = file
     /\ Fires /\ log'.msg # "Watcher error"
           /\ CalculateChanges(lastContent, file) = NoChanges
          => log' = Quiet /\ lastContent' = lastContent
     /\ (PushNext \/ PollNext) /\ exitCode' = "none"
          => lastContent' = lastContent]_vars

\* the detector of a --pull-only session has reported the file a pull wrote:
\* the baseline moved from the content watch() read to the content pulled
C26_Witness ==
  /\ pullOnly
  /\ log.msg = "env-changed"
  /\ log.changes = [added |-> {KeyB}, modified |-> {}, removed |-> {}]
  /\ lastContent = FileA1B2
  /\ file = FileA1B2
  /\ debounceTimer = "expired"

\* the timeouts of the detector that are set and have neither fired nor been
\* cleared
LiveTimers == strayTimers + (IF debounceTimer = "live" THEN 1 ELSE 0)

\* C27: the detector never has more than one live debounce timeout; a change
\* notification leaves exactly one, the one it sets, whether the one before it
\* was pending (it is cleared) or had fired; the file is re-read, and events
\* are emitted, only by the fire of the timeout the latest notification set.
C27_OneLiveTimer ==
  [][/\ LiveTimers' <= 1
     /\ FsNotify => debounceTimer' = "live" /\ LiveTimers' = 1
     /\ Fires => strayTimers = 0 /\ BurstEnds /\ LiveTimers' = 0
     /\ log'.msg \in {"env-changed", "Watcher error"} => Fires]_vars

\* a timeout has fired and started a push, and the notification of a later
\* edit has set the one live timeout
C27_Witness ==
  /\ Len(pushes) = 1
  /\ debounceTimer = "live"
  /\ LiveTimers = 1
  /\ userEdit
  /\ ~fsEvent

\* the local snapshot equals the decrypted remote snapshot, with no push and no
\* pull under way and nothing of the detector pending
InSync ==
  /\ AsMap(ParseEnvFile(file)) = AsMap(DecryptVariables(remote, ProjectName).vars)
  /\ Len(pushes) = 0 /\ polls.pull = 0
  /\ ~fsEvent /\ debounceTimer # "live"

\* C28: a bidirectional watch session left alone - no edit of the file, no
\* other client, no failure - eventually has its local snapshot equal to the
\* decrypted remote snapshot and is quiescent from then on: no push under way
\* or started, no write of the file.
C28_EventuallyInSync == <>[]InSync

\* C29: a bidirectional one-shot sync that runs while nobody else writes never
\* changes the local file, and when it has returned the remote snapshot,
\* decrypted, is the snapshot of the local file: one row per key of the file,
\* each with the file's value.  What only the remote held before the sync is
\* neither in the file nor on the remote afterwards.
C29_OneShotSyncKeepsLocal ==
  /\ file = call.file
  /\ exitCode = "0"
       => LET d == DecryptVariables(remote, ProjectName)
          IN /\ d.ok
             /\ AsMap(d.vars) = AsMap(ParseEnvFile(call.file))
             /\ Len(remote) = Len(ParseEnvFile(call.file))

\* a sync of A=1 has returned, started on a remote that held A=1 and B=2
C29_Witness ==
  /\ exitCode = "0"
  /\ Ops = <<"push", "pull">>
  /\ call.file = FileA1
  /\ KeyB \in KeysOf(DecryptVariables(call.remote, ProjectName).vars)
  /\ KeyB \notin KeysOf(ParseEnvFile(file))

\* the snapshot the rows of a push decrypt to
SentBy(push) == DecryptVariables(push.vars, ProjectName).vars

\* C30: every push a watch session starts carries the whole snapshot of the
\* file as it is when the push starts - one row per key of the file, whatever
\* the ChangeSet of the event names and whatever the detector read - and a
\* write of the file while pushes are in flight changes none of them.
C30_PushSendsFileAtStart ==
  [][/\ Len(pushes') > Len(pushes)
          => /\ SentBy(pushes'[Len(pushes')]) = ParseEnvFile(file')
             /\ Len(pushes'[Len(pushes')].vars) = Len(ParseEnvFile(file'))
     /\ file' # file /\ Len(pushes') >= Len(pushes)
          => SubSeq(pushes', 1, Len(pushes)) = pushes]_vars

\* an edit landed between the detector's read and the read of performPush: the
\* push in flight carries the file, not what the detector read, and more keys
\* than the ChangeSet names
C30_Witness ==
  /\ log.msg = "env-changed"
  /\ Len(pushes) > 0
  /\ lastContent # file
  /\ SentBy(pushes[Len(pushes)]) = ParseEnvFile(file)
  /\ SentBy(pushes[Len(pushes)]) # ParseEnvFile(lastContent)
====
